---- MODULE Spec2Model ----
(***************************************************************************)
(* Model of go-netting (src/main.go): the obligation graph, Tarjan's SCC   *)
(* detection, bounded cycle enumeration, per-cycle per-token netting and   *)
(* the ProcessNetting pipeline.                                            *)
(*                                                                         *)
(* Go's unordered map iteration (range over g.Edges, range over tokenMap)  *)
(* is a nondeterministic choice of order.  Slices keep their order.        *)
(* A uint64 is a word of four 16-bit limbs, most significant first, so     *)
(* that every value from 0 to 2^64 - 1 is represented and the arithmetic   *)
(* wraps at 2^64 as Go's does.                                             *)
(***************************************************************************)
EXTENDS Integers, Sequences, FiniteSets, TLC

VARIABLES intents, pc, i, Edges, sccs, si, cycles, ci, tokenMap, out, run, mode, prev

vars == <<intents, pc, i, Edges, sccs, si, cycles, ci, tokenMap, out, run, mode, prev>>

(* ---------------- bounds of the model ---------------- *)

\* largest amount of an enumerated input intent
MaxAmount == 2

\* most intents of an input over three parties and two tokens
MaxIntents == 2

\* most intents of an input between two parties, over two tokens
MaxPairIntents == 3

\* most intents of an input over three parties, one token and one amount
MaxUnitIntents == 4

\* most intents of an input over three parties and two tokens, two calls made
MaxDeepIntents == 3

\* most intents of an input between two parties, two calls made
MaxDeepPairIntents == 4

\* most intents of an input with amounts up to 2^64 - 1
MaxWideIntents == 2

\* most intents of such an input, two calls made
MaxDeepWideIntents == 3

\* most parties of a ring-shaped input
MaxRing == 5

\* largest maxLength tried on FindCycles besides the pipeline's own
MaxK == 3

(* ---------------- program constants ---------------- *)

\* the maxLength ProcessNetting passes to FindCycles
maxCycleLength == 4

(* ---------------- helpers ---------------- *)

Last(s) == s[Len(s)]

Front(s) == SubSeq(s, 1, Len(s) - 1)

SeqRange(s) == {s[k] : k \in 1..Len(s)}

\* all orders in which a map with key set S can be iterated
Perms(S) == {p \in [1..Cardinality(S) -> S] : \A a, b \in 1..Cardinality(S) : p[a] = p[b] => a = b}

(* ---------------- uint64 ---------------- *)

\* the radix of a limb: 2^16
Base == 65536

\* the uint64 of a number from 0 to 2^31 - 1
U64(n) == <<0, 0, n \div Base, n % Base>>

Zero == U64(0)

\* math.MaxUint64 = 2^64 - 1
MaxUint64 == <<Base - 1, Base - 1, Base - 1, Base - 1>>

\* a < b on uint64
ULess(a, b) == \E k \in 1..4 : a[k] < b[k] /\ \A h \in 1..(k - 1) : a[h] = b[h]

\* a <= b on uint64
ULeq(a, b) == a = b \/ ULess(a, b)

\* uint64 addition: the carry out of the top limb is dropped
UAdd(a, b) ==
  LET s0 == a[4] + b[4]
      s1 == a[3] + b[3] + (s0 \div Base)
      s2 == a[2] + b[2] + (s1 \div Base)
      s3 == a[1] + b[1] + (s2 \div Base)
  IN <<s3 % Base, s2 % Base, s1 % Base, s0 % Base>>

\* uint64 subtraction: the borrow out of the top limb is dropped
USub(a, b) ==
  LET d0 == a[4] - b[4]
      d1 == a[3] - b[3] - (IF d0 < 0 THEN 1 ELSE 0)
      d2 == a[2] - b[2] - (IF d1 < 0 THEN 1 ELSE 0)
      d3 == a[1] - b[1] - (IF d2 < 0 THEN 1 ELSE 0)
  IN <<(d3 + Base) % Base, (d2 + Base) % Base, (d1 + Base) % Base, (d0 + Base) % Base>>

(* ---------------- graph helpers ---------------- *)

\* g.Edges[v]; a missing key reads as the nil slice
EdgesOf(E, v) == IF v \in DOMAIN E THEN E[v] ELSE <<>>

Intent(s, r, t, a) == [Sender |-> s, Receiver |-> r, Token |-> t, Amount |-> a]

Edge(to, t, a) == [To |-> to, Token |-> t, Amount |-> a]

\* index of the first edge of slice es with the given To and Token, 0 if none
RECURSIVE FindEdge(_, _, _, _)
FindEdge(es, to, token, k) ==
  IF k > Len(es) THEN 0
  ELSE IF es[k].To = to /\ es[k].Token = token THEN k
  ELSE FindEdge(es, to, token, k + 1)

(* ---------------- Graph.AddEdge ---------------- *)

AddEdge(E, from, to, token, amount) ==
  LET es == EdgesOf(E, from)
      k == FindEdge(es, to, token, 1)
  IN IF k > 0
     THEN [E EXCEPT ![from] = [es EXCEPT ![k].Amount = UAdd(es[k].Amount, amount)]]
     ELSE [v \in DOMAIN E \cup {from} |->
             IF v = from THEN Append(es, Edge(to, token, amount)) ELSE E[v]]

(* ---------------- Graph.FindSCCs (Tarjan) ---------------- *)

Min(a, b) == IF a < b THEN a ELSE b

TarjanInit ==
  [index |-> 0, stack |-> <<>>, onStack |-> {}, indices |-> <<>>, lowlink |-> <<>>, sccs |-> <<>>]

SetMap(f, k, v) == [x \in DOMAIN f \cup {k} |-> IF x = k THEN v ELSE f[x]]

\* Emit without the size test
EmitAll(st, scc) == [st EXCEPT !.sccs = Append(st.sccs, scc)]

\* a popped component is kept only if it has more than one member
Emit(st, scc) == IF Len(scc) > 1 THEN [st EXCEPT !.sccs = Append(st.sccs, scc)] ELSE st

\* UpdateLowlink assigning instead of taking the minimum
UpdateLowlinkAssign(st, v, x) == [st EXCEPT !.lowlink[v] = x]

\* lowlink[v] = min(lowlink[v], x)
UpdateLowlink(st, v, x) == [st EXCEPT !.lowlink[v] = Min(st.lowlink[v], x)]

\* the pop loop: pops the stack down to and including v
RECURSIVE PopSCC(_, _, _)
PopSCC(st, v, scc) ==
  LET w == Last(st.stack)
      st1 == [st EXCEPT !.stack = Front(st.stack), !.onStack = st.onStack \ {w}]
      scc1 == Append(scc, w)
  IN IF w = v
     THEN Emit(st1, scc1)
     ELSE PopSCC(st1, v, scc1)

RECURSIVE strongConnect(_, _, _), Successors(_, _, _, _)
strongConnect(E, st, v) ==
  LET st1 == [index |-> st.index + 1,
              stack |-> Append(st.stack, v),
              onStack |-> st.onStack \cup {v},
              indices |-> SetMap(st.indices, v, st.index),
              lowlink |-> SetMap(st.lowlink, v, st.index),
              sccs |-> st.sccs]
      st2 == Successors(E, st1, v, 1)
  IN IF st2.lowlink[v] = st2.indices[v] THEN PopSCC(st2, v, <<>>) ELSE st2

\* the loop over g.Edges[v] of strongConnect, from its k-th edge on
Successors(E, st, v, k) ==
  IF k > Len(EdgesOf(E, v)) THEN st
  ELSE LET w == EdgesOf(E, v)[k].To
       IN IF w \notin DOMAIN st.indices
          THEN LET st1 == strongConnect(E, st, w)
               IN Successors(E, UpdateLowlink(st1, v, st1.lowlink[w]), v, k + 1)
          ELSE IF w \in st.onStack
          THEN Successors(E, UpdateLowlink(st, v, st.indices[w]), v, k + 1)
          ELSE Successors(E, st, v, k + 1)

\* the loop over the map's keys, taken in the given order
RECURSIVE Roots(_, _, _, _)
Roots(E, st, order, k) ==
  IF k > Len(order) THEN st
  ELSE IF order[k] \notin DOMAIN st.indices
  THEN Roots(E, strongConnect(E, st, order[k]), order, k + 1)
  ELSE Roots(E, st, order, k + 1)

FindSCCs(E, order) == Roots(E, TarjanInit, order, 1).sccs

(* ---------------- Graph.FindCycles ---------------- *)

RECURSIVE findCyclesRecursive(_, _, _, _, _, _), Branches(_, _, _, _, _, _, _)
findCyclesRecursive(E, st, current, start, depth, maxLength) ==
  IF depth > maxLength THEN st
  ELSE IF depth > 0 /\ current = start
  THEN [st EXCEPT !.cycles = Append(st.cycles, st.path)]
  ELSE LET st1 == [st EXCEPT !.visited = st.visited \cup {current},
                             !.path = Append(st.path, current)]
           st2 == Branches(E, st1, current, start, depth, maxLength, 1)
       IN [st2 EXCEPT !.path = Front(st2.path), !.visited = st2.visited \ {current}]

\* the loop over g.Edges[current] of findCyclesRecursive, from its k-th edge on
Branches(E, st, current, start, depth, maxLength, k) ==
  IF k > Len(EdgesOf(E, current)) THEN st
  ELSE LET to == EdgesOf(E, current)[k].To
       IN IF to \notin st.visited \/ to = start
          THEN Branches(E, findCyclesRecursive(E, st, to, start, depth + 1, maxLength),
                        current, start, depth, maxLength, k + 1)
          ELSE Branches(E, st, current, start, depth, maxLength, k + 1)

\* the loop over the start vertices
RECURSIVE Starts(_, _, _, _, _)
Starts(E, st, scc, maxLength, k) ==
  IF k > Len(scc) THEN st
  ELSE Starts(E, findCyclesRecursive(E, st, scc[k], scc[k], 0, maxLength), scc, maxLength, k + 1)

\* FindCycles with the depth test off by one
FindCyclesOffByOne(E, scc, maxLength) ==
  Starts(E, [cycles |-> <<>>, visited |-> {}, path |-> <<>>], scc, maxLength + 1, 1).cycles

FindCycles(E, scc, maxLength) ==
  Starts(E, [cycles |-> <<>>, visited |-> {}, path |-> <<>>], scc, maxLength, 1).cycles

(* ---------------- netting ---------------- *)

\* cycle[(k+1) % len(cycle)] for the 1-based position k
NextOf(cycle, k) == cycle[(k % Len(cycle)) + 1]

RECURSIVE MinFrom(_, _, _, _, _)
MinFrom(E, cycle, token, k, minAmount) ==
  IF k > Len(cycle) THEN minAmount
  ELSE LET es == EdgesOf(E, cycle[k])
           j == FindEdge(es, NextOf(cycle, k), token, 1)
       IN IF j > 0 /\ ULess(es[j].Amount, minAmount)
          THEN MinFrom(E, cycle, token, k + 1, es[j].Amount)
          ELSE MinFrom(E, cycle, token, k + 1, minAmount)

\* the largest amount instead of the smallest
RECURSIVE MaxFrom(_, _, _, _, _)
MaxFrom(E, cycle, token, k, maxAmount) ==
  IF k > Len(cycle) THEN maxAmount
  ELSE LET es == EdgesOf(E, cycle[k])
           j == FindEdge(es, NextOf(cycle, k), token, 1)
       IN IF j > 0 /\ ULess(maxAmount, es[j].Amount)
          THEN MaxFrom(E, cycle, token, k + 1, es[j].Amount)
          ELSE MaxFrom(E, cycle, token, k + 1, maxAmount)

\* CalculateNetting keeping the maximum
CalculateNettingMax(E, cycle, token) == MaxFrom(E, cycle, token, 1, Zero)

CalculateNetting(E, cycle, token) == MinFrom(E, cycle, token, 1, MaxUint64)

RECURSIVE SubFrom(_, _, _, _, _)
SubFrom(E, cycle, token, amount, k) ==
  IF k > Len(cycle) THEN E
  ELSE LET es == EdgesOf(E, cycle[k])
           j == FindEdge(es, NextOf(cycle, k), token, 1)
       IN IF j > 0
          THEN SubFrom([E EXCEPT ![cycle[k]][j].Amount = USub(es[j].Amount, amount)],
                       cycle, token, amount, k + 1)
          ELSE SubFrom(E, cycle, token, amount, k + 1)

\* ApplyNetting with its loop started one position late
ApplyNettingFromOne(E, cycle, token, amount) == SubFrom(E, cycle, token, amount, 2)

ApplyNetting(E, cycle, token, amount) == SubFrom(E, cycle, token, amount, 1)

\* the tokenMap ProcessNetting builds for a cycle
TokensOnCycle(E, cycle) ==
  {t \in {e.Token : e \in UNION {SeqRange(EdgesOf(E, v)) : v \in SeqRange(cycle)}} :
     \E k \in 1..Len(cycle) :
       \E j \in 1..Len(EdgesOf(E, cycle[k])) :
         /\ EdgesOf(E, cycle[k])[j].To = NextOf(cycle, k)
         /\ EdgesOf(E, cycle[k])[j].Token = t}

(* ---------------- Graph.ToIntents ---------------- *)

RECURSIVE EdgeIntents(_, _, _)
EdgeIntents(from, es, k) ==
  IF k > Len(es) THEN <<>>
  ELSE (IF ULess(Zero, es[k].Amount)
        THEN <<Intent(from, es[k].To, es[k].Token, es[k].Amount)>>
        ELSE <<>>) \o EdgeIntents(from, es, k + 1)

RECURSIVE KeyIntents(_, _, _)
KeyIntents(E, order, k) ==
  IF k > Len(order) THEN <<>>
  ELSE EdgeIntents(order[k], E[order[k]], 1) \o KeyIntents(E, order, k + 1)

ToIntents(E, order) == KeyIntents(E, order, 1)

(* ---------------- inputs ---------------- *)

Parties == {"A", "B", "C"}

Tokens == {"ETH", "USDC"}

Amounts == {U64(a) : a \in 1..MaxAmount}

\* every intent over the given parties, tokens and amounts
IntentsOver(P, T, A) == {Intent(s, r, t, a) : s \in P, r \in P, t \in T, a \in A}

\* every sequence of at most n intents of the set U
SeqsUpTo(U, n) == UNION {[1..m -> U] : m \in 0..n}

\* inputs over three parties and two tokens, of the smallest and largest amounts
GeneralInputs == SeqsUpTo(IntentsOver(Parties, Tokens, {U64(1), U64(MaxAmount)}), MaxIntents)

\* the intents between two parties
PairIntents == {in \in IntentsOver({"A", "B"}, Tokens, Amounts) : in.Sender # in.Receiver}

\* longer inputs between two parties
PairInputs == SeqsUpTo(PairIntents, MaxPairIntents)

\* longer inputs over one token and one amount
UnitInputs == SeqsUpTo(IntentsOver(Parties, {"ETH"}, {U64(1)}), MaxUnitIntents)

RingNames == <<"A", "B", "C", "D", "E", "F", "G", "H">>

\* the ring of n parties, one ETH intent per consecutive pair, with amounts a
Ring(n, a) == [k \in 1..n |-> Intent(RingNames[k], RingNames[(k % n) + 1], "ETH", a[k])]

\* rings short enough to be netted, with every choice of amounts, rings of
\* three with amounts up to 2^64 - 1, and longer rings with unit amounts
RingInputs ==
  UNION {{Ring(n, a) : a \in [1..n -> Amounts]} : n \in 2..maxCycleLength}
    \cup {Ring(3, a) : a \in [1..3 -> {U64(1), U64(Base), MaxUint64}]}
    \cup {Ring(n, [k \in 1..n |-> U64(1)]) : n \in (maxCycleLength + 1)..MaxRing}

\* the intents of main()
MainIntents ==
  <<Intent("A", "B", "ETH", U64(100)), Intent("B", "C", "ETH", U64(50)),
    Intent("C", "A", "ETH", U64(30)),
    Intent("D", "E", "USDC", U64(200)), Intent("E", "D", "USDC", U64(200))>>

\* amounts at the ends of the uint64 range and at a limb boundary
WideAmounts == {U64(1), U64(Base), MaxUint64}

\* the intents between two parties with such amounts
WideIntents ==
  {in \in IntentsOver({"A", "B"}, Tokens, WideAmounts) : in.Sender # in.Receiver}

\* inputs between two parties with such amounts
WideInputs == SeqsUpTo(WideIntents, MaxWideIntents)

Inputs ==
  GeneralInputs \cup PairInputs \cup UnitInputs \cup RingInputs \cup WideInputs
    \cup {MainIntents, SubSeq(MainIntents, 1, 3), SubSeq(MainIntents, 4, 5)}

\* the inputs above and longer ones
DeepInputs ==
  Inputs \cup SeqsUpTo(IntentsOver(Parties, Tokens, Amounts), MaxDeepIntents)
         \cup SeqsUpTo(PairIntents, MaxDeepPairIntents)
         \cup SeqsUpTo(WideIntents, MaxDeepWideIntents)

(* ---------------- ProcessNetting, step by step ---------------- *)

\* a call of ProcessNetting on the given intents begins
Start(in, r, m, p) ==
  /\ intents = in
  /\ pc = "build"
  /\ i = 1
  /\ Edges = <<>>
  /\ sccs = <<>>
  /\ si = 1
  /\ cycles = <<>>
  /\ ci = 1
  /\ tokenMap = {}
  /\ out = <<>>
  /\ run = r
  /\ mode = m
  /\ prev = p

Init == \E in \in Inputs : Start(in, 1, "first", <<>>)

InitTwice == \E in \in DeepInputs : Start(in, 1, "first", <<>>)

\* one iteration of the graph-building loop
AddEdgeStep ==
  /\ pc = "build"
  /\ i <= Len(intents)
  /\ Edges' = AddEdge(Edges, intents[i].Sender, intents[i].Receiver,
                      intents[i].Token, intents[i].Amount)
  /\ i' = i + 1
  /\ UNCHANGED <<intents, pc, sccs, si, cycles, ci, tokenMap, out, run, mode, prev>>

\* sccs := g.FindSCCs(), the map's keys ranged over in some order
FindSCCsStep ==
  /\ pc = "build"
  /\ i > Len(intents)
  /\ \E order \in Perms(DOMAIN Edges) : sccs' = FindSCCs(Edges, order)
  /\ si' = 1
  /\ pc' = "sccs"
  /\ UNCHANGED <<intents, i, Edges, cycles, ci, tokenMap, out, run, mode, prev>>

\* cycles := g.FindCycles(scc, 4) for the next component
FindCyclesStep ==
  /\ pc = "sccs"
  /\ si <= Len(sccs)
  /\ cycles' = FindCycles(Edges, sccs[si], maxCycleLength)
  /\ ci' = 1
  /\ pc' = "cycles"
  /\ UNCHANGED <<intents, i, Edges, sccs, si, tokenMap, out, run, mode, prev>>

\* the token set of the next cycle is collected
TokenMapStep ==
  /\ pc = "cycles"
  /\ ci <= Len(cycles)
  /\ tokenMap' = TokensOnCycle(Edges, cycles[ci])
  /\ pc' = "tokens"
  /\ UNCHANGED <<intents, i, Edges, sccs, si, cycles, ci, out, run, mode, prev>>

\* one iteration of the loop over tokenMap: CalculateNetting, then ApplyNetting
NetTokenStep ==
  /\ pc = "tokens"
  /\ \E token \in tokenMap :
       LET amount == CalculateNetting(Edges, cycles[ci], token)
       IN /\ Edges' = IF ULess(Zero, amount)
                      THEN ApplyNetting(Edges, cycles[ci], token, amount)
                      ELSE Edges
          /\ tokenMap' = tokenMap \ {token}
  /\ UNCHANGED <<intents, pc, i, sccs, si, cycles, ci, out, run, mode, prev>>

\* the loop over tokenMap is exhausted: on to the next cycle
NextCycle ==
  /\ pc = "tokens"
  /\ tokenMap = {}
  /\ ci' = ci + 1
  /\ pc' = "cycles"
  /\ UNCHANGED <<intents, i, Edges, sccs, si, cycles, tokenMap, out, run, mode, prev>>

\* the loop over cycles is exhausted: on to the next component
NextSCC ==
  /\ pc = "cycles"
  /\ ci > Len(cycles)
  /\ si' = si + 1
  /\ cycles' = <<>>
  /\ ci' = 1
  /\ pc' = "sccs"
  /\ UNCHANGED <<intents, i, Edges, sccs, tokenMap, out, run, mode, prev>>

\* return g.ToIntents(), the map's keys ranged over in some order
ToIntentsStep ==
  /\ pc = "sccs"
  /\ si > Len(sccs)
  /\ \E order \in Perms(DOMAIN Edges) : out' = ToIntents(Edges, order)
  /\ pc' = "done"
  /\ UNCHANGED <<intents, i, Edges, sccs, si, cycles, ci, tokenMap, run, mode, prev>>

\* a second call of ProcessNetting begins
Restart(in, m, p) ==
  /\ intents' = in
  /\ pc' = "build"
  /\ i' = 1
  /\ Edges' = <<>>
  /\ sccs' = <<>>
  /\ si' = 1
  /\ cycles' = <<>>
  /\ ci' = 1
  /\ tokenMap' = {}
  /\ out' = <<>>
  /\ run' = 2
  /\ mode' = m
  /\ prev' = p

\* the caller feeds the returned intents back through ProcessNetting
Resubmit ==
  /\ pc = "done"
  /\ run = 1
  /\ Restart(out, "resubmit", out)

\* the caller calls ProcessNetting again on the same intents
Replay ==
  /\ pc = "done"
  /\ run = 1
  /\ Restart(intents, "replay", out)

Next ==
  \/ AddEdgeStep
  \/ FindSCCsStep
  \/ FindCyclesStep
  \/ TokenMapStep
  \/ NetTokenStep
  \/ NextCycle
  \/ NextSCC
  \/ ToIntentsStep

\* one call of ProcessNetting
Spec == Init /\ [][Next]_vars

NextTwice ==
  \/ Next
  \/ Resubmit
  \/ Replay

\* a call of ProcessNetting and a second call by the same caller
SpecTwice == InitTwice /\ [][NextTwice]_vars

(* ---------------- vocabulary of the properties ---------------- *)

\* the graph is fully built and not yet handed back
Built == ~(pc = "build" /\ i <= Len(intents))

\* the parties of a graph: the keys and every edge's target
Vertices(E) == DOMAIN E \cup UNION {{E[v][j].To : j \in 1..Len(E[v])} : v \in DOMAIN E}

\* the directed pairs joined by an edge of the graph
Rel(E) == UNION {{<<v, E[v][j].To>> : j \in 1..Len(E[v])} : v \in DOMAIN E}

\* the directed pairs joined by an intent of the sequence
RelOf(in) == {<<in[k].Sender, in[k].Receiver>> : k \in 1..Len(in)}

RECURSIVE Closure(_, _)
Closure(R, S) ==
  LET S2 == S \cup {p[2] : p \in {q \in R : q[1] \in S}}
  IN IF S2 = S THEN S ELSE Closure(R, S2)

\* the parties reached from v along one or more pairs of R
ReachFrom(R, v) == Closure(R, {p[2] : p \in {q \in R : q[1] = v}})

\* a natural number in radix Base: four limbs below a top limb that is not
\* cut off, so that sums of uint64 amounts are exact
Num(u) == <<0>> \o u

NumZero == Num(Zero)

\* exact addition of two such numbers
NumAdd(a, b) ==
  LET s0 == a[5] + b[5]
      s1 == a[4] + b[4] + (s0 \div Base)
      s2 == a[3] + b[3] + (s1 \div Base)
      s3 == a[2] + b[2] + (s2 \div Base)
  IN <<a[1] + b[1] + (s3 \div Base), s3 % Base, s2 % Base, s1 % Base, s0 % Base>>

RECURSIVE SumSeq(_, _)
SumSeq(f, k) == IF k = 0 THEN NumZero ELSE NumAdd(f[k], SumSeq(f, k - 1))

\* the exact total the first n intents insert for the triple (s, r, t)
Inserted(in, n, s, r, t) ==
  SumSeq([k \in 1..n |-> IF in[k].Sender = s /\ in[k].Receiver = r /\ in[k].Token = t
                         THEN Num(in[k].Amount) ELSE NumZero], n)

\* how many of the first n intents are for the triple (s, r, t)
Insertions(in, n, s, r, t) ==
  Cardinality({k \in 1..n : in[k].Sender = s /\ in[k].Receiver = r /\ in[k].Token = t})

(* ---------------- C7 ---------------- *)

\* C7: the graph never holds two edges for one (from, to, token) triple, and
\* while the graph is being built the edge of a triple carries the exact sum
\* of the amounts inserted for it so far (an edge exists exactly for the
\* triples inserted).
C7_MergeInvariant ==
  /\ \A v \in DOMAIN Edges : \A a, b \in 1..Len(Edges[v]) :
       (Edges[v][a].To = Edges[v][b].To /\ Edges[v][a].Token = Edges[v][b].Token) => a = b
  /\ pc = "build" =>
       /\ \A v \in DOMAIN Edges : \A j \in 1..Len(Edges[v]) :
            /\ Insertions(intents, i - 1, v, Edges[v][j].To, Edges[v][j].Token) > 0
            /\ Num(Edges[v][j].Amount) =
                 Inserted(intents, i - 1, v, Edges[v][j].To, Edges[v][j].Token)
       /\ \A k \in 1..(i - 1) :
            FindEdge(EdgesOf(Edges, intents[k].Sender),
                     intents[k].Receiver, intents[k].Token, 1) > 0

(* ---------------- C9 ---------------- *)

\* the parties u and v lie on a common directed cycle
Mutual(E, u, v) == v \in ReachFrom(Rel(E), u) /\ u \in ReachFrom(Rel(E), v)

\* C9: when FindSCCs has just returned, its result lists exactly the strongly
\* connected components of two or more parties: no party is listed twice,
\* two distinct parties share a component iff each reaches the other, and no
\* component has a single member.
C9_SCCsExact ==
  (pc = "sccs" /\ si = 1) =>
    /\ \A k \in 1..Len(sccs) :
         /\ Len(sccs[k]) >= 2
         /\ \A a, b \in 1..Len(sccs[k]) : sccs[k][a] = sccs[k][b] => a = b
    /\ \A k, l \in 1..Len(sccs) : k # l => SeqRange(sccs[k]) \cap SeqRange(sccs[l]) = {}
    /\ \A u, v \in Vertices(Edges) :
         u # v =>
           ((\E k \in 1..Len(sccs) : {u, v} \subseteq SeqRange(sccs[k])) <=> Mutual(Edges, u, v))

\* FindSCCs has returned one component of two parties while a third party,
\* carrying a self-loop and an edge into the component, is left out
C9_Witness ==
  /\ pc = "sccs" /\ run = 1 /\ Len(sccs) = 1
  /\ SeqRange(sccs[1]) = {"A", "B"}
  /\ <<"C", "C">> \in Rel(Edges)
  /\ <<"C", "A">> \in Rel(Edges)

(* ---------------- C5 ---------------- *)

\* no party reaches itself along the intents (so no self-loop either)
AcyclicInput(in) ==
  \A k \in 1..Len(in) : in[k].Sender \notin ReachFrom(RelOf(in), in[k].Sender)

DistinctTriples(in) ==
  \A a, b \in 1..Len(in) :
    (in[a].Sender = in[b].Sender /\ in[a].Receiver = in[b].Receiver
       /\ in[a].Token = in[b].Token) => a = b

Positive(in) == \A k \in 1..Len(in) : ULess(Zero, in[k].Amount)

\* C5: on an input without a directed cycle, with distinct triples and positive
\* amounts, FindSCCs returns no component, every edge keeps the amount of its
\* intent, and the returned intents are exactly the input intents.
C5_NoCycleNoOp ==
  (Built /\ AcyclicInput(intents) /\ DistinctTriples(intents) /\ Positive(intents)) =>
    /\ pc # "build" => sccs = <<>>
    /\ \A k \in 1..Len(intents) :
         LET es == EdgesOf(Edges, intents[k].Sender)
             j == FindEdge(es, intents[k].Receiver, intents[k].Token, 1)
         IN j > 0 /\ es[j].Amount = intents[k].Amount
    /\ pc = "done" => (SeqRange(out) = SeqRange(intents) /\ Len(out) = Len(intents))

\* an acyclic input of two intents over two tokens has been processed
C5_Witness ==
  /\ pc = "done" /\ run = 1
  /\ intents = <<Intent("A", "B", "ETH", U64(2)), Intent("B", "C", "USDC", U64(1))>>
  /\ Len(out) = 2

(* ---------------- C4 ---------------- *)

\* the input is one simple directed cycle of 2 to 4 parties, one intent per
\* consecutive pair, one token, positive amounts
IsSimpleCycle(in) ==
  /\ Len(in) >= 2 /\ Len(in) <= 4
  /\ \A a, b \in 1..Len(in) :
       a # b => (in[a].Sender # in[b].Sender /\ in[a].Receiver # in[b].Receiver)
  /\ \A k \in 1..Len(in) :
       in[k].Sender # in[k].Receiver /\ in[k].Token = in[1].Token /\ ULess(Zero, in[k].Amount)
  /\ ReachFrom(RelOf(in), in[1].Sender) = {in[k].Sender : k \in 1..Len(in)}

\* the smallest amount of a non-empty intent sequence
MinAmount(in) == CHOOSE m \in {in[k].Amount : k \in 1..Len(in)} :
                   \A k \in 1..Len(in) : ULeq(m, in[k].Amount)

\* the intents of in, each reduced by m, those reduced to 0 left out
Reduced(in, m) ==
  {[in[k] EXCEPT !.Amount = USub(in[k].Amount, m)] :
     k \in {h \in 1..Len(in) : ULess(m, in[h].Amount)}}

\* C4: on a single-token simple cycle of 2 to 4 parties ProcessNetting returns
\* each intent reduced by the cycle's minimum amount, exactly once, and leaves
\* out the intents reduced to 0.
C4_CycleCancellation ==
  (pc = "done" /\ IsSimpleCycle(intents)) =>
    /\ SeqRange(out) = Reduced(intents, MinAmount(intents))
    /\ Len(out) = Cardinality(Reduced(intents, MinAmount(intents)))

\* A->B 100, B->C 50, C->A 30 has been netted to A->B 70, B->C 20
C4_Witness ==
  /\ pc = "done" /\ run = 1
  /\ intents = SubSeq(MainIntents, 1, 3)
  /\ SeqRange(out) = {Intent("A", "B", "ETH", U64(70)), Intent("B", "C", "ETH", U64(20))}

(* ---------------- C6 ---------------- *)

\* the members of a set in some order
RECURSIVE SetToSeq(_)
SetToSeq(S) ==
  IF S = {} THEN <<>>
  ELSE LET x == CHOOSE y \in S : TRUE IN <<x>> \o SetToSeq(S \ {x})

\* some directed cycle of the graph runs through more than n parties
HasCycleLongerThan(E, n) ==
  \E S \in SUBSET Vertices(E) :
    /\ Cardinality(S) > n
    /\ \A u \in S : Cardinality({p \in Rel(E) : p[1] = u /\ p[2] \in S}) = 1
    /\ \A u \in S : ReachFrom({p \in Rel(E) : p[1] \in S /\ p[2] \in S}, u) = S

\* C6: every cycle FindCycles returns for a bound k has at most k parties,
\* whatever the vertex set it is given, and the cycles ProcessNetting works
\* on have at most 4.
C6_BoundRespected ==
  /\ \A c \in SeqRange(cycles) : Len(c) >= 1 /\ Len(c) <= maxCycleLength
  /\ (pc = "sccs" /\ si = 1 /\ run = 1) =>
       \A k \in 1..MaxK : \A S \in SUBSET Vertices(Edges) :
         \A c \in SeqRange(FindCycles(Edges, SetToSeq(S), k)) : Len(c) <= k

\* FindCycles has returned no cycle for a component that is a ring of more
\* than 4 parties
C6_Witness ==
  /\ pc = "cycles" /\ run = 1
  /\ cycles = <<>>
  /\ Len(sccs[si]) > maxCycleLength
  /\ HasCycleLongerThan(Edges, maxCycleLength)

(* ---------------- C8 ---------------- *)

\* the loop of ProcessNetting that builds the graph, from the k-th intent on
RECURSIVE BuildFrom(_, _, _)
BuildFrom(E, in, k) ==
  IF k > Len(in) THEN E
  ELSE BuildFrom(AddEdge(E, in[k].Sender, in[k].Receiver, in[k].Token, in[k].Amount),
                 in, k + 1)

\* the graph ProcessNetting builds from the intents
BuildGraph(in) == BuildFrom(<<>>, in, 1)

\* the amount about to be netted is the amount of an edge of the cycle, not
\* the value CalculateNetting starts from, and never exceeds an edge it is
\* subtracted from
SubtrahendFits ==
  pc = "tokens" =>
    \A t \in tokenMap :
      LET amount == CalculateNetting(Edges, cycles[ci], t)
      IN /\ \E k \in 1..Len(cycles[ci]) :
              LET es == EdgesOf(Edges, cycles[ci][k])
                  j == FindEdge(es, NextOf(cycles[ci], k), t, 1)
              IN j > 0 /\ amount = es[j].Amount
         /\ \A k \in 1..Len(cycles[ci]) :
              LET es == EdgesOf(Edges, cycles[ci][k])
                  j == FindEdge(es, NextOf(cycles[ci], k), t, 1)
              IN j > 0 => ULeq(amount, es[j].Amount)

\* the four limbs of a uint64
IsWord(a) == Len(a) = 4 /\ \A k \in 1..4 : a[k] >= 0 /\ a[k] < Base

\* no edge amount exceeds its value after graph construction
WithinBuilt ==
  Built =>
    LET g0 == BuildGraph(intents)
    IN /\ DOMAIN Edges = DOMAIN g0
       /\ \A v \in DOMAIN Edges :
            /\ Len(Edges[v]) = Len(g0[v])
            /\ \A j \in 1..Len(Edges[v]) :
                 IsWord(Edges[v][j].Amount) /\ ULeq(Edges[v][j].Amount, g0[v][j].Amount)

\* a netting step leaves every edge in place and raises no amount
NeverRaised ==
  pc = "tokens" =>
    /\ DOMAIN Edges' = DOMAIN Edges
    /\ \A v \in DOMAIN Edges :
         /\ Len(Edges'[v]) = Len(Edges[v])
         /\ \A j \in 1..Len(Edges[v]) : ULeq(Edges'[v][j].Amount, Edges[v][j].Amount)

\* C8: no subtraction of ApplyNetting underflows: the amount netted is at most
\* the amount of each edge it is taken from (and is never the sentinel), every
\* netting step only lowers amounts, and every amount stays between 0 and its
\* value after graph construction.
C8_NoUnderflow == [](SubtrahendFits /\ WithinBuilt) /\ [][NeverRaised]_vars

\* netting has lowered one edge to 0 and another to a smaller positive amount
C8_Witness ==
  /\ pc = "tokens" /\ run = 1
  /\ \E v \in DOMAIN Edges : \E j \in 1..Len(Edges[v]) :
       Edges[v][j].Amount = Zero
  /\ \E v \in DOMAIN Edges : \E j \in 1..Len(Edges[v]) :
       /\ ULess(Zero, Edges[v][j].Amount)
       /\ ULess(Edges[v][j].Amount, BuildGraph(intents)[v][j].Amount)

(* ---------------- C1 ---------------- *)

\* the exact total of token t the intents owe to party p
OwedTo(in, p, t) ==
  SumSeq([k \in 1..Len(in) |->
            IF in[k].Token = t /\ in[k].Receiver = p THEN Num(in[k].Amount) ELSE NumZero],
         Len(in))

\* the exact total of token t party p owes by the intents
OwedBy(in, p, t) ==
  SumSeq([k \in 1..Len(in) |->
            IF in[k].Token = t /\ in[k].Sender = p THEN Num(in[k].Amount) ELSE NumZero],
         Len(in))

\* party p's net position in token t (owed to p less owed by p) is the same
\* by the intents x as by the intents y
SameNet(x, y, p, t) ==
  NumAdd(OwedTo(x, p, t), OwedBy(y, p, t)) = NumAdd(OwedTo(y, p, t), OwedBy(x, p, t))

\* the graph's edges as intents, zero amounts included
RECURSIVE AllEdges(_, _)
AllEdges(E, keys) ==
  IF keys = {} THEN <<>>
  ELSE LET v == CHOOSE x \in keys : TRUE
       IN [j \in 1..Len(E[v]) |-> Intent(v, E[v][j].To, E[v][j].Token, E[v][j].Amount)]
            \o AllEdges(E, keys \ {v})

PartiesOf(in) == {in[k].Sender : k \in 1..Len(in)} \cup {in[k].Receiver : k \in 1..Len(in)}

TokensOf(in) == {in[k].Token : k \in 1..Len(in)}

\* C1: every party's net position in every token is the same in the graph,
\* from its construction on and so across every ApplyNetting, and in the
\* returned intents, as in the input intents.
C1_NetPositionPreserved ==
  \A p \in PartiesOf(intents) : \A t \in TokensOf(intents) :
    /\ Built => SameNet(AllEdges(Edges, DOMAIN Edges), intents, p, t)
    /\ pc = "done" => SameNet(out, intents, p, t)

(* ---------------- C2 ---------------- *)

\* every consecutive pair of the cycle, the wraparound pair included, has an
\* edge of the token
CycleCarries(E, cycle, token) ==
  \A k \in 1..Len(cycle) : FindEdge(EdgesOf(E, cycle[k]), NextOf(cycle, k), token, 1) > 0

\* C2: a step of the token loop alters the graph only if every consecutive
\* pair of the cycle at hand has an edge of the token it nets.
C2_OnlyClosedCyclesNetted ==
  [][(pc = "tokens" /\ Edges' # Edges) =>
       \A t \in tokenMap \ tokenMap' : CycleCarries(Edges, cycles[ci], t)]_vars

(* ---------------- C3 ---------------- *)

\* C3: ProcessNetting applied to its own result returns the same set of intents.
C3_RerunIdempotent ==
  (pc = "done" /\ mode = "resubmit") => SeqRange(out) = SeqRange(prev)

(* ---------------- C10 ---------------- *)

\* C10: a second run of ProcessNetting on the same intents returns the same
\* set of intents as the first, whatever orders the map iterations take.
C10_ResultDeterministic ==
  (pc = "done" /\ mode = "replay") => SeqRange(out) = SeqRange(prev)

====
